---- MODULE Spec2Model ----
(***************************************************************************)
(* Order placement of the near_and_now marketplace: createOrder (the       *)
(* allocation of cart items to nearby stores and the writes to             *)
(* customer_orders, store_orders, order_items and order_status_history)    *)
(* and generateOrderNumber, as state machines.                             *)
(*                                                                         *)
(* createOrder is an async function: the model takes one step per awaited  *)
(* datastore round-trip, each step running the synchronous code up to the  *)
(* next await.  The allocation loop has no await; AllocRound is one pass   *)
(* of its body, run to completion by RunLoop inside createOrder and one    *)
(* pass per step under SpecAlloc.                                          *)
(***************************************************************************)
EXTENDS Integers, Sequences, FiniteSets, TLC

\* ---------------------------------------------------------------- bounds
NumStores == 2          \* stores in the stores table
NumProducts == 2        \* master products in the catalogue
MaxItems == 2           \* longest cart of a createOrder call
NumCalls == 3           \* createOrder invocations
NumDays == 2            \* dates the callers' clocks show
AllocStores == 3        \* candidate stores of the allocation loop under SpecAlloc
AllocMaxItems == 4      \* longest cart of the allocation loop under SpecAlloc
AllocMaxRows == 6       \* most rows of the availability query under SpecAlloc
MaxSubOrders == 3       \* most sub-orders of a createOrder call under SpecFee
MaxFee == 4             \* largest delivery fee, in whole currency units
FractionBits == 2       \* binary fraction digits a number keeps

Stores == 1..NumStores
Products == 1..NumProducts
Calls == 1..NumCalls
Days == 1..NumDays

\* An item that has neither product_id nor id: `it.product_id || it.id` is falsy.
NoId == 0
\* `let bestStore: string | null = null`
NoStore == 0

\* ------------------------------------------------------------ cart items
\* OrderItem: product_id (product_id || id), name, price, quantity.  The name
\* of an item stands for its name string; price and quantity are fixed per
\* product so that a cart is determined by its product ids.
Item(p) == [product_id |-> p, name |-> p, price |-> p + 1, quantity |-> IF p = 1 THEN 2 ELSE 1]

Mid(it) == it.product_id

RECURSIVE SetToSeq(_)
SetToSeq(S) == IF S = {} THEN <<>>
               ELSE LET m == CHOOSE x \in S : \A y \in S : x <= y
                    IN <<m>> \o SetToSeq(S \ {m})

Range(s) == {s[i] : i \in 1..Len(s)}

\* ------------------------------------------------- availability index
\* A row of the products table as the availability query selects it.
ProductRow(s, p) == [id |-> <<s, p>>, store_id |-> s, master_product_id |-> p]

\* byMaster: master product id -> the {store_id, product_id} options.
ByMaster(productRows) ==
    [m \in {r.master_product_id : r \in productRows} |->
        {[store_id |-> r.store_id, product_id |-> r.id] :
            r \in {x \in productRows : x.master_product_id = m}}]

\* `const options = mid ? byMaster.get(mid) : []` is undefined when mid is a
\* product id that is no key of byMaster.
OptionsUndefined(byMaster, it) ==
    Mid(it) # NoId /\ Mid(it) \notin DOMAIN byMaster

\* `options` where it is defined: [] without a product id, else the map's list.
Options(byMaster, it) ==
    IF Mid(it) # NoId /\ Mid(it) \in DOMAIN byMaster THEN byMaster[Mid(it)] ELSE {}

\* `options.some((o) => o.store_id === storeId)`
SomeOption(byMaster, it, storeId) ==
    \E o \in Options(byMaster, it) : o.store_id = storeId

\* ------------------------------------------------------ allocation loop
\* The Map storeToItems as its entries in insertion order.
MapHas(m, k) == \E j \in 1..Len(m) : m[j].store_id = k
MapGet(m, k) == IF MapHas(m, k)
                THEN (m[CHOOSE j \in 1..Len(m) : m[j].store_id = k]).chunk
                ELSE <<>>
MapSet(m, k, v) ==
    IF MapHas(m, k)
    THEN [j \in 1..Len(m) |-> IF m[j].store_id = k THEN [store_id |-> k, chunk |-> v] ELSE m[j]]
    ELSE Append(m, [store_id |-> k, chunk |-> v])

\* The state of the loop: its inputs, `assigned`, `storeToItems`, where the
\* control is, and the number of passes of the body.
AllocStart(items, storeIds, byMaster) ==
    [items |-> items, storeIds |-> storeIds, byMaster |-> byMaster,
     assigned |-> {}, storeToItems |-> <<>>, phase |-> "loop", rounds |-> 0]

Unassigned(st) == {i \in 1..Len(st.items) : i \notin st.assigned}

\* `while (assigned.size < items.length)`
LoopCond_OffByOne(st) == Cardinality(st.assigned) < Len(st.items) - 1
LoopCond(st) == Cardinality(st.assigned) < Len(st.items)

\* The inner for-loop over items: the count of one store.
CountFor(st, storeId) ==
    Cardinality({i \in Unassigned(st) : SomeOption(st.byMaster, st.items[i], storeId)})

\* `options.some` on an undefined `options` raises a TypeError: an
\* unassigned item whose product id is no key of byMaster.
ScanThrows(st) ==
    /\ Len(st.storeIds) > 0
    /\ \E i \in Unassigned(st) : OptionsUndefined(st.byMaster, st.items[i])

\* `if (count > bestCount)`
Better_FirstFit(count, bestCount) == bestCount = 0 /\ count > 0
Better(count, bestCount) == count > bestCount

\* The for-loop over storeIds from position k on.
RECURSIVE ScanStores(_, _, _)
ScanStores(st, k, best) ==
    IF k > Len(st.storeIds) THEN best
    ELSE LET count == CountFor(st, st.storeIds[k])
         IN ScanStores(st, k + 1,
                IF Better(count, best.bestCount)
                THEN [bestStore |-> st.storeIds[k], bestCount |-> count]
                ELSE best)

\* The second for-loop: the unassigned items the best store has, in cart order.
ChunkOf_Reassign(st, bestStore) ==
    SelectSeq(SetToSeq(1..Len(st.items)),
              LAMBDA i : SomeOption(st.byMaster, st.items[i], bestStore))
ChunkOf(st, bestStore) ==
    SelectSeq(SetToSeq(1..Len(st.items)),
              LAMBDA i : i \notin st.assigned
                         /\ SomeOption(st.byMaster, st.items[i], bestStore))

\* One evaluation of the loop condition and, if it holds, one pass of the body.
AllocRound(st) ==
    IF ~LoopCond(st) THEN [st EXCEPT !.phase = "exit"]
    ELSE IF ScanThrows(st) THEN [st EXCEPT !.phase = "threw", !.rounds = @ + 1]
    ELSE LET best == ScanStores(st, 1, [bestStore |-> NoStore, bestCount |-> 0])
         IN IF best.bestStore = NoStore \/ best.bestCount = 0
            THEN [st EXCEPT !.phase = "break", !.rounds = @ + 1]
            ELSE LET chunk == ChunkOf(st, best.bestStore)
                     existing == MapGet(st.storeToItems, best.bestStore)
                 IN [st EXCEPT !.assigned = @ \cup Range(chunk),
                               !.storeToItems = MapSet(@, best.bestStore, existing \o chunk),
                               !.rounds = @ + 1]

RECURSIVE RunLoop(_)
RunLoop(st) == IF st.phase = "loop" THEN RunLoop(AllocRound(st)) ELSE st

\* `items.filter((_, i) => !assigned.has(i))`, as cart positions in order.
UnassignedList(st) == SetToSeq(Unassigned(st))

\* ------------------------------------------------------------ variables
VARIABLES
    pc,                    \* where each createOrder call is
    orderData,             \* the argument of each call
    nearby,                \* what get_nearby_store_ids answers for each call's address
    loc,                   \* the locals of each call
    error,                 \* the Error a failed call threw
    products,              \* products table: the row of each (store, master product)
    order_seq,             \* the counter behind generate_next_order_number, per prefix
    customer_orders,       \* the four order tables, rows in insertion order
    store_orders,
    order_items,
    order_status_history,
    al,                    \* the allocation loop stepped alone (SpecAlloc)
    stores,                \* stores table: the row of each store id
    app_users,             \* app_users table: the ids of its rows
    signup,                \* where each signupComplete call is, and its response
    res                    \* the last response of a store owner's update request

tables == <<customer_orders, store_orders, order_items, order_status_history>>
ownerVars == <<stores, app_users, signup, res>>
vars == <<pc, orderData, nearby, loc, error, products, order_seq,
          customer_orders, store_orders, order_items, order_status_history, al,
          stores, app_users, signup, res>>

NoError == [kind |-> "none", names |-> <<>>]
NoLocals == [orderCode |-> [prefix |-> 0, seq |-> 0], rpc |-> "none", storeIds |-> <<>>,
             productRows |-> [error |-> FALSE, data |-> {}], storeToItems |-> <<>>, customerOrder |-> 0, i |-> 0,
             storeOrder |-> 0, orderItemsPayload |-> <<>>, historyError |-> FALSE]
AlIdle == AllocStart(<<>>, <<>>, ByMaster({}))

\* `throw new Error(...)`: the catch block logs and rethrows.
Throw(c, kind, names) ==
    /\ pc' = [pc EXCEPT ![c] = "failed"]
    /\ error' = [error EXCEPT ![c] = [kind |-> kind, names |-> names]]

Goto(c, label) ==
    /\ pc' = [pc EXCEPT ![c] = label]
    /\ UNCHANGED error

RECURSIVE SumSeq(_)
SumSeq(s) == IF s = <<>> THEN 0 ELSE Head(s) + SumSeq(Tail(s))

\* ------------------------------------------------------- number arithmetic
\* A JavaScript number is a binary floating-point value: a quotient is
\* rounded to the nearest representable value, ties to even.  Numbers are
\* kept here as counts of 2^-FractionBits, so that a division by a power of
\* two (up to 2^FractionBits) of a whole amount is exact and any other may round.
Scale == 2 ^ FractionBits

\* The number n, a whole amount.
Num(n) == n * Scale

\* `x / n`
Divide(x, n) ==
    LET q == x \div n
        r == x % n
    IN IF 2 * r < n THEN q
       ELSE IF 2 * r > n THEN q + 1
       ELSE IF q % 2 = 0 THEN q ELSE q + 1

\* `itemChunks.length > 1 ? orderData.delivery_fee / itemChunks.length : orderData.delivery_fee`
ChunkDeliveryFee_Full(delivery_fee, length) == delivery_fee
ChunkDeliveryFee(delivery_fee, length) ==
    IF length > 1 THEN Divide(delivery_fee, length) ELSE delivery_fee

\* ------------------------------------------------------------ createOrder
\* `status: 'pending_at_store'` of the customer_orders insert (line 848), the
\* store_orders insert (line 883) and the order_status_history insert (line 946).
InitialStatus_Placed == "placed"
InitialStatus == "pending_at_store"

\* Lines 737-762: the user id check and the choice between the supplied
\* coordinates and geocoding.
Validate(c) ==
    /\ pc[c] = "start"
    /\ \E user_id \in BOOLEAN, coordinates \in BOOLEAN :
          IF ~user_id THEN Throw(c, "UserIdRequired", <<>>)
          ELSE IF coordinates THEN Goto(c, "generate")
          ELSE Goto(c, "geocode")
    /\ UNCHANGED <<orderData, nearby, loc, products, order_seq, tables, al, ownerVars>>

\* Lines 757-761: `await geocodeAddress(fullAddress)`.
Geocode(c) ==
    /\ pc[c] = "geocode"
    /\ \E result \in BOOLEAN :
          IF ~result THEN Throw(c, "AddressNotVerified", <<>>)
          ELSE Goto(c, "generate")
    /\ UNCHANGED <<orderData, nearby, loc, products, order_seq, tables, al, ownerVars>>

\* The RPC generate_next_order_number: under a row lock it advances the
\* counter of the prefix and answers the prefix with the new number.
generate_next_order_number(prefix) ==
    [data |-> [prefix |-> prefix, seq |-> order_seq[prefix] + 1],
     counter |-> [order_seq EXCEPT ![prefix] = @ + 1]]

\* Lines 696-730 with line 764.  The prefix is today's date on the caller's clock.
generateOrderNumber_Fallback(c) ==
    /\ pc[c] = "generate"
    /\ \E prefix \in Days, rpcError \in BOOLEAN :
          IF rpcError
          THEN /\ loc' = [loc EXCEPT ![c].orderCode = [prefix |-> prefix, seq |-> 1]]
               /\ Goto(c, "locate")
               /\ UNCHANGED order_seq
          ELSE LET rpc == generate_next_order_number(prefix)
               IN /\ order_seq' = rpc.counter
                  /\ loc' = [loc EXCEPT ![c].orderCode = rpc.data]
                  /\ Goto(c, "locate")
    /\ UNCHANGED <<orderData, nearby, products, tables, al, ownerVars>>
generateOrderNumber(c) ==
    /\ pc[c] = "generate"
    /\ \E prefix \in Days, rpcError \in BOOLEAN :
          IF rpcError
          THEN /\ Throw(c, "OrderNumberFailed", <<>>)
               /\ UNCHANGED <<order_seq, loc>>
          ELSE LET rpc == generate_next_order_number(prefix)
               IN /\ order_seq' = rpc.counter
                  /\ loc' = [loc EXCEPT ![c].orderCode = rpc.data]
                  /\ Goto(c, "locate")
    /\ UNCHANGED <<orderData, nearby, products, tables, al, ownerVars>>

\* `[...new Set(items.map((it) => it.product_id || it.id).filter(...))]`
MasterProductIds(items) == {Mid(items[i]) : i \in 1..Len(items)} \ {NoId}

\* The stored procedure `get_nearby_store_ids`: the stores within the radius
\* of the call's address (nearby, nearest first) that are online.
get_nearby_store_ids(c) ==
    SelectSeq(nearby[c], LAMBDA s : s \in DOMAIN stores /\ stores[s].is_active)

\* What `supabaseAdmin.rpc('get_nearby_store_ids', ...)` can do: answer the
\* store ids, answer an error, or throw.
RpcOutcomes(c) ==
    {[kind |-> "data", storeIds |-> get_nearby_store_ids(c)],
     [kind |-> "error", storeIds |-> <<>>],
     [kind |-> "threw", storeIds |-> <<>>]}

\* Lines 356-372, the function getNearbyStoreIds: what it returns, and
\* whether it raises.
NearbyStoreIds_Raises(rpc) ==
    IF rpc.kind = "data" THEN [raised |-> FALSE, storeIds |-> rpc.storeIds]
    ELSE [raised |-> TRUE, storeIds |-> <<>>]
NearbyStoreIds(rpc) ==
    IF rpc.kind = "data" /\ Len(rpc.storeIds) > 0
    THEN [raised |-> FALSE, storeIds |-> rpc.storeIds]
    ELSE [raised |-> FALSE, storeIds |-> <<>>]

\* Lines 768-777: the call of getNearbyStoreIds and the two checks after it.
\* loc.rpc keeps what the RPC did.
getNearbyStoreIds(c) ==
    /\ pc[c] = "locate"
    /\ \E rpc \in RpcOutcomes(c) :
          LET result == NearbyStoreIds(rpc)
              storeIds == result.storeIds
              called == [loc EXCEPT ![c].rpc = rpc.kind]
          IN IF result.raised
             THEN Throw(c, "LocatorError", <<>>) /\ loc' = called
             ELSE IF Len(storeIds) = 0
             THEN Throw(c, "NoStoreAvailable", <<>>) /\ loc' = called
             ELSE IF MasterProductIds(orderData[c].items) = {}
             THEN Throw(c, "NoValidProducts", <<>>) /\ loc' = called
             ELSE /\ loc' = [called EXCEPT ![c].storeIds = storeIds]
                  /\ Goto(c, "availability")
    /\ UNCHANGED <<orderData, nearby, products, order_seq, tables, al, ownerVars>>

\* A row of the products table: is_active, and one unit in stock.
InventoryEntry(is_active) == [is_active |-> is_active, quantity |-> 1, in_stock |-> TRUE]

\* Lines 780-785: the active rows of the candidate stores for the cart's products.
AvailabilityRows_InStock(storeIds, masterProductIds) ==
    {ProductRow(cell[1], cell[2]) :
        cell \in {x \in DOMAIN products : /\ products[x].is_active
                                          /\ products[x].quantity > 0
                                          /\ x[1] \in Range(storeIds)
                                          /\ x[2] \in masterProductIds}}
AvailabilityRows(storeIds, masterProductIds) ==
    {ProductRow(cell[1], cell[2]) :
        cell \in {x \in DOMAIN products : /\ products[x].is_active
                                          /\ x[1] \in Range(storeIds)
                                          /\ x[2] \in masterProductIds}}

\* Line 376: the longest id list one `.in()` filter should carry.  The source
\* has 100; the model has a limit its candidate lists and carts can exceed.
IN_FILTER_CHUNK_SIZE == 1

\* Lines 378-382: `chunk`: `arr` cut into slices of at most `size` elements.
RECURSIVE Chunk(_, _)
Chunk(arr, size) ==
    IF Len(arr) = 0 THEN <<>>
    ELSE IF Len(arr) <= size THEN <<arr>>
    ELSE <<SubSeq(arr, 1, size)>> \o Chunk(SubSeq(arr, size + 1, Len(arr)), size)

\* Lines 780-785: the queries of createOrder's availability lookup, by their
\* two `.in()` lists: one query with the whole lists (`chunk` is not called).
AvailabilityQueries(storeIds, masterProductIds) ==
    <<[store_id |-> storeIds, master_product_id |-> masterProductIds]>>

\* The rows of the queries' answers together.
MergedRows(queries) ==
    UNION {AvailabilityRows(queries[k].store_id, queries[k].master_product_id) :
              k \in 1..Len(queries)}

\* `storeIdsToUse.map((sid) => storeToItems.get(sid))` as cart items.
ItemsOfChunk(items, chunk) == [j \in 1..Len(chunk) |-> items[chunk[j]]]

NamesOf(items, positions) == [j \in 1..Len(positions) |-> items[positions[j]].name]

\* Lines 786-795: byMaster, storeToItems and assigned are created anew by
\* every call.
LoopStart_SharedMap(c, productRows) ==
    LET fresh == AllocStart(orderData[c].items, loc[c].storeIds, ByMaster(productRows))
        earlier == {d \in Calls \ {c} : loc[d].storeToItems # <<>>}
    IN IF earlier = {} THEN fresh
       ELSE [fresh EXCEPT !.storeToItems = loc[CHOOSE d \in earlier : TRUE].storeToItems]
LoopStart_AllStores(c, productRows) ==
    [AllocStart(orderData[c].items, loc[c].storeIds, ByMaster(productRows))
        EXCEPT !.storeToItems = [k \in 1..Len(loc[c].storeIds) |->
                                    [store_id |-> loc[c].storeIds[k], chunk |-> <<>>]]]
LoopStart(c, productRows) ==
    AllocStart(orderData[c].items, loc[c].storeIds, ByMaster(productRows))

\* Lines 780-834: the availability query (its error is not read: a failed
\* query leaves productRows null, and `productRows || []` is then empty),
\* byMaster, the allocation loop and the unassigned check, with no await in
\* between.  loc.productRows keeps what the query answered.
Allocate_WritesFirst(c) ==
    /\ pc[c] = "availability"
    /\ \E queryError \in BOOLEAN :
          LET items == orderData[c].items
              productRows == IF queryError THEN {}
                             ELSE MergedRows(AvailabilityQueries(loc[c].storeIds,
                                                                 MasterProductIds(items)))
              st == RunLoop(AllocStart(items, loc[c].storeIds, ByMaster(productRows)))
              answered == [loc EXCEPT ![c].productRows =
                              [error |-> queryError, data |-> productRows]]
          IN IF st.phase = "threw"
             THEN Throw(c, "TypeError", <<>>) /\ loc' = answered
                  /\ UNCHANGED customer_orders
             ELSE /\ customer_orders' = Append(customer_orders,
                        [id |-> Len(customer_orders) + 1, by |-> c,
                         order_code |-> loc[c].orderCode, status |-> InitialStatus,
                         subtotal_amount |-> orderData[c].subtotal,
                         delivery_fee |-> orderData[c].delivery_fee])
                  /\ IF Unassigned(st) # {}
                     THEN Throw(c, "ItemsUnavailable", NamesOf(items, UnassignedList(st)))
                          /\ loc' = answered
                     ELSE /\ loc' = [answered EXCEPT ![c].storeToItems = st.storeToItems,
                                                     ![c].customerOrder = Len(customer_orders) + 1,
                                                     ![c].i = 1]
                          /\ Goto(c, "insert_store_order")
    /\ UNCHANGED <<orderData, nearby, products, order_seq, store_orders, order_items,
                   order_status_history, al, ownerVars>>
Allocate(c) ==
    /\ pc[c] = "availability"
    /\ \E queryError \in BOOLEAN :
          LET items == orderData[c].items
              productRows == IF queryError THEN {}
                             ELSE MergedRows(AvailabilityQueries(loc[c].storeIds,
                                                                 MasterProductIds(items)))
              st == RunLoop(LoopStart(c, productRows))
              answered == [loc EXCEPT ![c].productRows =
                              [error |-> queryError, data |-> productRows]]
          IN IF st.phase = "threw"
             THEN Throw(c, "TypeError", <<>>) /\ loc' = answered
             ELSE IF Unassigned(st) # {}
             THEN Throw(c, "ItemsUnavailable", NamesOf(items, UnassignedList(st)))
                  /\ loc' = answered
             ELSE /\ loc' = [answered EXCEPT ![c].storeToItems = st.storeToItems]
                  /\ Goto(c, "insert_customer_order")
    /\ UNCHANGED <<orderData, nearby, products, order_seq, tables, al, ownerVars>>

\* Lines 843-871: the customer_orders insert; the subtotal is the caller's.
InsertCustomerOrder(c) ==
    /\ pc[c] = "insert_customer_order"
    /\ \E coError \in BOOLEAN :
          IF coError
          THEN /\ Throw(c, "CustomerOrderInsert", <<>>)
               /\ UNCHANGED <<loc, customer_orders>>
          ELSE LET id == Len(customer_orders) + 1
               IN /\ customer_orders' = Append(customer_orders,
                        [id |-> id, by |-> c, order_code |-> loc[c].orderCode,
                         status |-> InitialStatus,
                         subtotal_amount |-> orderData[c].subtotal,
                         delivery_fee |-> orderData[c].delivery_fee])
                  /\ loc' = [loc EXCEPT ![c].customerOrder = id, ![c].i = 1]
                  /\ Goto(c, "insert_store_order")
    /\ UNCHANGED <<orderData, nearby, products, order_seq, store_orders, order_items,
                   order_status_history, al, ownerVars>>

\* `customerOrder.id`: the id of the row this call's insert returned.
CustomerOrderId_Latest(c) == Len(customer_orders)
CustomerOrderId(c) == loc[c].customerOrder

\* `chunk.reduce((sum, it) => sum + it.price * it.quantity, 0)`
ChunkSubtotal_NoQuantity(chunk) ==
    SumSeq([j \in 1..Len(chunk) |-> chunk[j].price])
ChunkSubtotal(chunk) ==
    SumSeq([j \in 1..Len(chunk) |-> chunk[j].price * chunk[j].quantity])

CurrentEntry(c) == loc[c].storeToItems[loc[c].i]

\* Line 833: `Array.from(storeToItems.keys())`
StoreIdsToUse_Nearby(c) == nearby[c]
StoreIdsToUse(c) == [j \in 1..Len(loc[c].storeToItems) |-> loc[c].storeToItems[j].store_id]
CurrentChunk(c) == ItemsOfChunk(orderData[c].items, CurrentEntry(c).chunk)

\* Lines 873-897: the store_orders insert of sub-order i.
InsertStoreOrder(c) ==
    /\ pc[c] = "insert_store_order"
    /\ \E soError \in BOOLEAN :
          IF soError
          THEN /\ Throw(c, "StoreOrderInsert", <<>>)
               /\ UNCHANGED <<loc, store_orders>>
          ELSE LET id == Len(store_orders) + 1
               IN /\ store_orders' = Append(store_orders,
                        [id |-> id, by |-> c, customer_order_id |-> CustomerOrderId(c),
                         store_id |-> StoreIdsToUse(c)[loc[c].i],
                         subtotal_amount |-> ChunkSubtotal(CurrentChunk(c)),
                         delivery_fee |-> ChunkDeliveryFee(orderData[c].delivery_fee,
                                                           Len(loc[c].storeToItems)),
                         status |-> InitialStatus])
                  /\ loc' = [loc EXCEPT ![c].storeOrder = id]
                  /\ Goto(c, "resolve_products")
    /\ UNCHANGED <<orderData, nearby, products, order_seq, customer_orders, order_items,
                   order_status_history, al, ownerVars>>

\* Lines 899-904: the active rows of one store for the chunk's products.
StoreRows_AnyStore(storeId, masterProductIds) ==
    AvailabilityRows(SetToSeq(Stores), masterProductIds)
StoreRows(storeId, masterProductIds) ==
    AvailabilityRows(<<storeId>>, masterProductIds)

\* Lines 899-931: the store's active rows for the chunk's products, and the
\* payload; an item without a row fails the placement.
ResolveProducts(c) ==
    /\ pc[c] = "resolve_products"
    /\ \E productsError \in BOOLEAN :
          LET chunk == CurrentChunk(c)
              storeId == CurrentEntry(c).store_id
              rows == StoreRows(storeId, MasterProductIds(chunk))
              masterToProduct == [m \in {r.master_product_id : r \in rows} |->
                                    (CHOOSE r \in rows : r.master_product_id = m).id]
              missing == SelectSeq(SetToSeq(1..Len(chunk)),
                                   LAMBDA j : Mid(chunk[j]) \notin DOMAIN masterToProduct)
          IN IF productsError
             THEN Throw(c, "VerifyAvailability", <<>>) /\ UNCHANGED loc
             ELSE IF missing # <<>>
             THEN Throw(c, "ProductNotAvailable", <<chunk[Head(missing)].name>>)
                  /\ UNCHANGED loc
             ELSE /\ loc' = [loc EXCEPT ![c].orderItemsPayload =
                        [j \in 1..Len(chunk) |->
                            [store_order_id |-> loc[c].storeOrder,
                             product_id |-> masterToProduct[Mid(chunk[j])],
                             product_name |-> chunk[j].name,
                             unit_price |-> chunk[j].price,
                             quantity |-> chunk[j].quantity]]]
                  /\ Goto(c, "insert_order_items")
    /\ UNCHANGED <<orderData, nearby, products, order_seq, tables, al, ownerVars>>

\* Lines 933-941: the order_items insert of the payload, and the loop's next pass.
InsertOrderItems_TakesStock(c) ==
    /\ pc[c] = "insert_order_items"
    /\ \E itemsError \in BOOLEAN :
          IF itemsError
          THEN /\ Throw(c, "OrderItemsInsert", <<>>)
               /\ UNCHANGED <<loc, order_items>>
          ELSE LET payload == loc[c].orderItemsPayload
               IN /\ order_items' = order_items \o
                        [j \in 1..Len(payload) |->
                            [id |-> Len(order_items) + j, by |-> c,
                             store_order_id |-> payload[j].store_order_id,
                             product_id |-> payload[j].product_id,
                             product_name |-> payload[j].product_name,
                             unit_price |-> payload[j].unit_price,
                             quantity |-> payload[j].quantity]]
                  /\ loc' = [loc EXCEPT ![c].i = @ + 1, ![c].orderItemsPayload = <<>>]
                  /\ IF loc[c].i < Len(loc[c].storeToItems)
                     THEN Goto(c, "insert_store_order")
                     ELSE Goto(c, "insert_history")
    /\ products' = [cell \in DOMAIN products |->
                      IF /\ cell[1] = CurrentEntry(c).store_id
                         /\ cell[2] \in MasterProductIds(CurrentChunk(c))
                      THEN [products[cell] EXCEPT !.quantity = 0]
                      ELSE products[cell]]
    /\ UNCHANGED <<orderData, nearby, order_seq, customer_orders, store_orders,
                   order_status_history, al, ownerVars>>
InsertOrderItems(c) ==
    /\ pc[c] = "insert_order_items"
    /\ \E itemsError \in BOOLEAN :
          IF itemsError
          THEN /\ Throw(c, "OrderItemsInsert", <<>>)
               /\ UNCHANGED <<loc, order_items>>
          ELSE LET payload == loc[c].orderItemsPayload
               IN /\ order_items' = order_items \o
                        [j \in 1..Len(payload) |->
                            [id |-> Len(order_items) + j, by |-> c,
                             store_order_id |-> payload[j].store_order_id,
                             product_id |-> payload[j].product_id,
                             product_name |-> payload[j].product_name,
                             unit_price |-> payload[j].unit_price,
                             quantity |-> payload[j].quantity]]
                  /\ loc' = [loc EXCEPT ![c].i = @ + 1, ![c].orderItemsPayload = <<>>]
                  /\ IF loc[c].i < Len(loc[c].storeToItems)
                     THEN Goto(c, "insert_store_order")
                     ELSE Goto(c, "insert_history")
    /\ UNCHANGED <<orderData, nearby, products, order_seq, customer_orders, store_orders,
                   order_status_history, al, ownerVars>>

\* Lines 943-975: the order_status_history insert, whose result is not read,
\* and the return.  loc.historyError keeps what the insert answered.
InsertHistory(c) ==
    /\ pc[c] = "insert_history"
    /\ \E insertError \in BOOLEAN :
          /\ order_status_history' =
                IF insertError THEN order_status_history
                ELSE Append(order_status_history,
                            [by |-> c, customer_order_id |-> CustomerOrderId(c),
                             status |-> InitialStatus])
          /\ loc' = [loc EXCEPT ![c].historyError = insertError]
    /\ Goto(c, "returned")
    /\ UNCHANGED <<orderData, nearby, products, order_seq, customer_orders,
                   store_orders, order_items, al, ownerVars>>

\* A concurrent actor switches an inventory entry off.  Only a switch that a
\* call in flight is about to read is taken: an earlier one is a different
\* initial inventory, a later one is read by no call.
DeactivateProduct(s, p) ==
    /\ products[<<s, p>>].is_active
    /\ \E c \in Calls :
          /\ pc[c] = "resolve_products"
          /\ CurrentEntry(c).store_id = s
          /\ p \in MasterProductIds(CurrentChunk(c))
    /\ products' = [products EXCEPT ![<<s, p>>].is_active = FALSE]
    /\ UNCHANGED <<pc, orderData, nearby, loc, error, order_seq, tables, al, ownerVars>>

\* ------------------------------------------------ the store owner's requests
MaxQuantity == 2
NumSignups == 3
Signups == 1..NumSignups

NoRequest == [auth |-> FALSE, id |-> <<0, 0>>, body |-> [type |-> "undefined", value |-> 0]]
NoResponse == [handler |-> "none", status |-> 0, req |-> NoRequest]

\* `typeof quantity !== 'number' || quantity < 0` (line 140)
QuantityRejected_TypeOnly(body) == body.type # "number"
QuantityRejected(body) == body.type # "number" \/ body.value < 0

\* Lines 127-188: PATCH /products/:productId/quantity.  req.auth is whether
\* the Authorization header starts with 'Bearer ', req.id is :productId and
\* req.body the `quantity` of the body with its typeof.  The update selects
\* by id alone and writes quantity and in_stock.
updateProductQuantity(req) ==
    /\ \E dbError \in BOOLEAN :
          LET respond(status) ==
                  res' = [handler |-> "updateProductQuantity", status |-> status, req |-> req]
          IN IF ~req.auth THEN respond(401) /\ UNCHANGED products
             ELSE IF QuantityRejected(req.body) THEN respond(400) /\ UNCHANGED products
             ELSE IF dbError THEN respond(500) /\ UNCHANGED products
             ELSE IF req.id \notin DOMAIN products THEN respond(404) /\ UNCHANGED products
             ELSE /\ products' = [products EXCEPT ![req.id].quantity = req.body.value,
                                                  ![req.id].in_stock = req.body.value > 0]
                  /\ respond(200)
    /\ UNCHANGED <<pc, orderData, nearby, loc, error, order_seq, tables, al,
                   stores, app_users, signup>>

\* Lines 72-122: PATCH /stores/:id/online.  `.single()` answers an error when
\* no row has the id.
updateStoreStatus(req) ==
    /\ \E dbError \in BOOLEAN :
          LET respond(status) ==
                  res' = [handler |-> "updateStoreStatus", status |-> status, req |-> req]
          IN IF ~req.auth THEN respond(401) /\ UNCHANGED stores
             ELSE IF req.body.type # "boolean" THEN respond(400) /\ UNCHANGED stores
             ELSE IF dbError \/ req.id \notin DOMAIN stores
             THEN respond(500) /\ UNCHANGED stores
             ELSE /\ stores' = [stores EXCEPT ![req.id].is_active = req.body.value]
                  /\ respond(200)
    /\ UNCHANGED <<pc, orderData, nearby, loc, error, products, order_seq, tables, al,
                   app_users, signup>>

\* signupComplete, lines 195-283, one action per awaited datastore call.
\* The new user's id is the database's; call k is given the id k.
SignupDone(k, status) == signup' = [signup EXCEPT ![k] = [pc |-> "done", status |-> status]]

\* Lines 208-242: the check of the body and the app_users insert.
SignupInsertUser(k) ==
    /\ signup[k].pc = "start"
    /\ \E complete \in BOOLEAN, userError \in BOOLEAN :
          IF ~complete THEN SignupDone(k, 400) /\ UNCHANGED app_users
          ELSE IF userError THEN SignupDone(k, 500) /\ UNCHANGED app_users
          ELSE /\ app_users' = app_users \cup {k}
               /\ signup' = [signup EXCEPT ![k].pc = "insert_store"]
    /\ UNCHANGED <<pc, orderData, nearby, loc, error, products, order_seq, tables, al,
                   stores, res>>

\* Lines 244-265: the stores insert; the store starts offline.
SignupInsertStore(k) ==
    /\ signup[k].pc = "insert_store"
    /\ \E storeError \in BOOLEAN :
          IF storeError
          THEN /\ signup' = [signup EXCEPT ![k].pc = "delete_user"]
               /\ UNCHANGED stores
          ELSE /\ stores' = Append(stores, [owner_id |-> k, is_active |-> FALSE])
               /\ SignupDone(k, 200)
    /\ UNCHANGED <<pc, orderData, nearby, loc, error, products, order_seq, tables, al,
                   app_users, res>>

\* Lines 257-262: the delete of the user's row, whose result is not read,
\* and the 500 response.
SignupDeleteUser(k) ==
    /\ signup[k].pc = "delete_user"
    /\ \E deleteError \in BOOLEAN :
          app_users' = IF deleteError THEN app_users ELSE app_users \ {k}
    /\ SignupDone(k, 500)
    /\ UNCHANGED <<pc, orderData, nearby, loc, error, products, order_seq, tables, al,
                   stores, res>>

CreateOrderStep(c) ==
    \/ Validate(c)
    \/ Geocode(c)
    \/ generateOrderNumber(c)
    \/ getNearbyStoreIds(c)
    \/ Allocate(c)
    \/ InsertCustomerOrder(c)
    \/ InsertStoreOrder(c)
    \/ ResolveProducts(c)
    \/ InsertOrderItems(c)
    \/ InsertHistory(c)

Next ==
    \/ \E c \in Calls : CreateOrderStep(c)
    \/ \E s \in Stores, p \in Products : DeactivateProduct(s, p)

\* ------------------------------------------------------- initial states
RECURSIVE MaxOf(_)
MaxOf(S) == IF S = {} THEN 0 ELSE CHOOSE x \in S : \A y \in S : y <= x

\* Carts name their products in order of first appearance (any cart is such
\* a cart after renaming its products); NoId items appear anywhere.
FirstAppearanceOrder(pids) ==
    \A i \in 1..Len(pids) : pids[i] <= 1 + MaxOf({pids[j] : j \in 1..(i - 1)})

CartsUpTo(maxLen, maxPid) ==
    UNION {{pids \in [1..n -> 0..maxPid] : FirstAppearanceOrder(pids)} : n \in 0..maxLen}

CartOf(pids) == [i \in 1..Len(pids) |-> Item(pids[i])]

CartTotal(items) == SumSeq([i \in 1..Len(items) |-> items[i].price * items[i].quantity])

\* orderData: the items, a subtotal that is the cart's total or is not, and
\* the delivery fee (the largest one: only the fee of a sub-order reads it).
OrderDatas ==
    {[items |-> CartOf(pids), subtotal |-> CartTotal(CartOf(pids)) + d,
      delivery_fee |-> Num(MaxFee)] :
        pids \in CartsUpTo(MaxItems, NumProducts), d \in {0, 1}}

\* The stores in range, nearest first, none twice: the first n stores by
\* rising or by falling id (any list is one of these after renaming its
\* stores; the order of the list need not be the order of the ids).
StoreLists ==
    UNION {{[i \in 1..n |-> i], [i \in 1..n |-> n + 1 - i]} : n \in 0..NumStores}

NotCalled == [items |-> <<>>, subtotal |-> 0, delivery_fee |-> 0]

\* The stores the orders are placed with: seeded, owned by user 0, online.
MaxStoreId == IF NumStores >= MaxSubOrders THEN NumStores ELSE MaxSubOrders
SeededStores == [s \in 1..MaxStoreId |-> [owner_id |-> 0, is_active |-> TRUE]]

InitOwner ==
    /\ stores = SeededStores
    /\ app_users = {0}
    /\ signup = [k \in Signups |-> [pc |-> "idle", status |-> 0]]
    /\ res = NoResponse

InitOrders ==
    /\ loc = [c \in Calls |-> NoLocals]
    /\ error = [c \in Calls |-> NoError]
    /\ order_seq = [d \in Days |-> 0]
    /\ customer_orders = <<>>
    /\ store_orders = <<>>
    /\ order_items = <<>>
    /\ order_status_history = <<>>
    /\ al = AlIdle

InitCommon == InitOwner /\ InitOrders

\* One call, of any cart, against any list of stores in range and any
\* inventory of those stores for the cart's products (no query of the call
\* selects a row of another store or of another product).
Init ==
    /\ pc = [c \in Calls |-> IF c = 1 THEN "start" ELSE "idle"]
    /\ \E od \in OrderDatas, l \in StoreLists :
         /\ orderData = [c \in Calls |-> IF c = 1 THEN od ELSE NotCalled]
         /\ nearby = [c \in Calls |-> IF c = 1 THEN l ELSE <<>>]
         /\ \E active \in SUBSET (Range(l) \X MasterProductIds(od.items)) :
              products = [cell \in Stores \X Products |-> InventoryEntry(cell \in active)]
    /\ InitCommon

Spec == Init /\ [][Next]_vars

\* ------------------------------- SpecSeq: concurrent generateOrderNumber
\* Every call in flight at once, up to the answer of generateOrderNumber.
InitSeq ==
    /\ pc = [c \in Calls |-> "start"]
    /\ orderData = [c \in Calls |-> [items |-> CartOf(<<1>>), subtotal |-> CartTotal(CartOf(<<1>>)),
                                     delivery_fee |-> Num(MaxFee)]]
    /\ nearby = [c \in Calls |-> <<>>]
    /\ products = [cell \in Stores \X Products |-> InventoryEntry(TRUE)]
    /\ InitCommon

NextSeq == \E c \in Calls : Validate(c) \/ Geocode(c) \/ generateOrderNumber(c)

SpecSeq == InitSeq /\ [][NextSeq]_vars

\* ------------------------- SpecFee: createOrder with up to MaxSubOrders
\* One call whose cart has one item per sub-order: n products, n nearby
\* stores, store j carrying product j only, and any delivery fee.
InitFee ==
    /\ pc = [c \in Calls |-> IF c = 1 THEN "start" ELSE "idle"]
    /\ \E n \in 1..MaxSubOrders, fee \in 0..MaxFee :
         /\ orderData = [c \in Calls |->
                IF c = 1
                THEN [items |-> CartOf([j \in 1..n |-> j]),
                      subtotal |-> CartTotal(CartOf([j \in 1..n |-> j])),
                      delivery_fee |-> Num(fee)]
                ELSE NotCalled]
         /\ nearby = [c \in Calls |-> IF c = 1 THEN [j \in 1..n |-> j] ELSE <<>>]
    /\ products = [cell \in (1..MaxSubOrders) \X (1..MaxSubOrders) |->
                    InventoryEntry(cell[1] = cell[2])]
    /\ InitCommon

SpecFee == InitFee /\ [][Next]_vars

\* ------------------------ SpecTwice: two calls with identical input
\* Calls 1 and 2 are given the same orderData and the same address, and run
\* in any interleaving of their awaits (one after the other included).
InitTwice ==
    /\ pc = [c \in Calls |-> IF c \in {1, 2} THEN "start" ELSE "idle"]
    /\ \E n \in {k \in 1..NumStores : k <= NumProducts} :
         /\ orderData = [c \in Calls |->
                IF c \in {1, 2}
                THEN [items |-> CartOf([j \in 1..n |-> j]),
                      subtotal |-> CartTotal(CartOf([j \in 1..n |-> j])),
                      delivery_fee |-> Num(MaxFee)]
                ELSE NotCalled]
         /\ nearby = [c \in Calls |-> IF c \in {1, 2} THEN [j \in 1..n |-> j] ELSE <<>>]
    /\ products = [cell \in Stores \X Products |-> InventoryEntry(cell[1] = cell[2])]
    /\ InitCommon

SpecTwice == InitTwice /\ [][Next]_vars

\* ------------- SpecStock: two calls for an entry whose quantity is being set
\* Calls 1 and 2 order the same product, which store 1 alone carries with
\* one unit or none, while the store's owner sets the entry's quantity.
InitStock ==
    /\ pc = [c \in Calls |-> IF c \in {1, 2} THEN "start" ELSE "idle"]
    /\ \E p \in Products, q \in 0..1 :
         /\ orderData = [c \in Calls |->
                IF c \in {1, 2}
                THEN [items |-> CartOf(<<p>>), subtotal |-> CartTotal(CartOf(<<p>>)),
                      delivery_fee |-> Num(MaxFee)]
                ELSE NotCalled]
         /\ products = [cell \in Stores \X Products |->
                IF cell = <<1, p>>
                THEN [InventoryEntry(TRUE) EXCEPT !.quantity = q, !.in_stock = q > 0]
                ELSE InventoryEntry(FALSE)]
    /\ nearby = [c \in Calls |-> IF c \in {1, 2} THEN <<1>> ELSE <<>>]
    /\ InitCommon

\* The owner's requests for the ordered entry.
StockRequests ==
    {[auth |-> TRUE, id |-> <<1, p>>, body |-> [type |-> "number", value |-> q]] :
        p \in MasterProductIds(orderData[1].items), q \in 0..1}

NextStock ==
    \/ \E c \in Calls : CreateOrderStep(c)
    \/ \E req \in StockRequests : updateProductQuantity(req)

SpecStock == InitStock /\ [][NextStock]_vars

\* ------------- SpecOffline: one call while owners switch their stores
\* Call 1 orders products 1..n; either store j carries product j only or
\* every store carries every product, and every store is in range.  The owners switch stores off and on; a switch of a
\* store that already has its sub-order is left out, nothing reads it.
InitOffline ==
    /\ pc = [c \in Calls |-> IF c = 1 THEN "start" ELSE "idle"]
    /\ \E n \in {k \in 1..NumStores : k <= NumProducts} :
         orderData = [c \in Calls |->
                IF c = 1
                THEN [items |-> CartOf([j \in 1..n |-> j]),
                      subtotal |-> CartTotal(CartOf([j \in 1..n |-> j])),
                      delivery_fee |-> Num(MaxFee)]
                ELSE NotCalled]
    /\ nearby = [c \in Calls |-> IF c = 1 THEN SetToSeq(Stores) ELSE <<>>]
    /\ \E everywhere \in BOOLEAN :
         products = [cell \in Stores \X Products |->
                        InventoryEntry(everywhere \/ cell[1] = cell[2])]
    /\ InitCommon

StatusRequests ==
    {[auth |-> TRUE, id |-> s, body |-> [type |-> "boolean", value |-> b]] :
        s \in {t \in Stores : \A j \in 1..Len(store_orders) : store_orders[j].store_id # t},
        b \in BOOLEAN}

NextOffline ==
    \/ \E c \in Calls : CreateOrderStep(c)
    \/ \E req \in StatusRequests : updateStoreStatus(req)

SpecOffline == InitOffline /\ [][NextOffline]_vars

\* ----------------------------- SpecSignup: concurrent signupComplete calls
InitSignup ==
    /\ pc = [c \in Calls |-> "idle"]
    /\ orderData = [c \in Calls |-> NotCalled]
    /\ nearby = [c \in Calls |-> <<>>]
    /\ products = [cell \in Stores \X Products |-> InventoryEntry(TRUE)]
    /\ InitOrders
    /\ stores = SeededStores
    /\ app_users = {0}
    /\ signup = [k \in Signups |-> [pc |-> "start", status |-> 0]]
    /\ res = NoResponse

NextSignup ==
    \E k \in Signups : SignupInsertUser(k) \/ SignupInsertStore(k) \/ SignupDeleteUser(k)

SpecSignup == InitSignup /\ [][NextSignup]_vars

\* --------------------- SpecQuantity: the owner's quantity requests alone
\* The entries of product 1, one per store, each with one unit.
QuantityEntries == {<<s, 1>> : s \in Stores}
UnknownProduct == <<0, 1>>

InitQuantity ==
    /\ pc = [c \in Calls |-> "idle"]
    /\ orderData = [c \in Calls |-> NotCalled]
    /\ nearby = [c \in Calls |-> <<>>]
    /\ products = [cell \in QuantityEntries |-> InventoryEntry(TRUE)]
    /\ InitCommon

\* `quantity` of the body: a number from -1 up, the string "1", or absent.
QuantityBodies ==
    {[type |-> "number", value |-> q] : q \in (-1)..MaxQuantity}
    \cup {[type |-> "string", value |-> 1], [type |-> "undefined", value |-> 0]}

QuantityRequests ==
    [auth : BOOLEAN, id : QuantityEntries \cup {UnknownProduct}, body : QuantityBodies]

NextQuantity == \E req \in QuantityRequests : updateProductQuantity(req)

SpecQuantity == InitQuantity /\ [][NextQuantity]_vars

\* --------------------------------------------- SpecAlloc: the loop alone
\* The loop reads an item's product id only and keeps cart order inside a
\* chunk, so the carts list the items of one product side by side and the
\* items without id last (any cart is such a cart after reordering its items).
ByProduct(pids) ==
    \A i \in 1..(Len(pids) - 1) :
        IF pids[i] = NoId THEN pids[i + 1] = NoId
        ELSE pids[i + 1] = NoId \/ pids[i] <= pids[i + 1]

AllocCarts == {pids \in CartsUpTo(AllocMaxItems, AllocMaxItems) \ {<<>>} : ByProduct(pids)}

\* The locator's order need not be the order of the ids: the candidates are
\* listed from the highest id down.
AllocCandidates == [i \in 1..AllocStores |-> AllocStores + 1 - i]

\* The loop tells two products of the cart apart only by the stores that
\* carry them, so of two products next to each other with as many items each,
\* the first has the stores that come first as a binary number (any
\* inventory is such an inventory after swapping the two products).
StoresCode(carried, p) ==
    SumSeq([s \in 1..AllocStores |-> IF <<s, p>> \in carried THEN 2 ^ (s - 1) ELSE 0])

ItemsOf(pids, p) == Cardinality({i \in 1..Len(pids) : pids[i] = p})

SortedByStores(pids, carried) ==
    \A p \in Range(pids) \ {NoId} :
        (p + 1 \in Range(pids) /\ ItemsOf(pids, p) = ItemsOf(pids, p + 1))
        => StoresCode(carried, p) <= StoresCode(carried, p + 1)

InitAlloc ==
    /\ \E pids \in AllocCarts :
         \E carried \in SUBSET ((1..AllocStores) \X (Range(pids) \ {NoId})) :
           /\ Cardinality(carried) <= AllocMaxRows
           /\ SortedByStores(pids, carried)
           /\ al = AllocStart(CartOf(pids), AllocCandidates,
                              ByMaster({ProductRow(cell[1], cell[2]) : cell \in carried}))
    /\ pc = [c \in Calls |-> "idle"]
    /\ orderData = [c \in Calls |-> NotCalled]
    /\ nearby = [c \in Calls |-> <<>>]
    /\ loc = [c \in Calls |-> NoLocals]
    /\ error = [c \in Calls |-> NoError]
    /\ products = [cell \in Stores \X Products |-> InventoryEntry(FALSE)]
    /\ order_seq = [d \in Days |-> 0]
    /\ customer_orders = <<>>
    /\ store_orders = <<>>
    /\ order_items = <<>>
    /\ order_status_history = <<>>
    /\ InitOwner

\* One evaluation of the loop condition (line 796) and one pass of the body.
AllocStep ==
    /\ al.phase = "loop"
    /\ al' = AllocRound(al)
    /\ UNCHANGED <<pc, orderData, nearby, loc, error, products, order_seq, tables, ownerVars>>

NextAlloc == AllocStep

SpecAlloc == InitAlloc /\ [][NextAlloc]_vars

\* ----------------------------------------------------------------- claims
RowsBy(table, c) == SelectSeq(table, LAMBDA r : r.by = c)

WroteNothing(c) ==
    /\ RowsBy(customer_orders, c) = <<>>
    /\ RowsBy(store_orders, c) = <<>>
    /\ RowsBy(order_items, c) = <<>>
    /\ RowsBy(order_status_history, c) = <<>>

BeforeAllocationErrors ==
    {"UserIdRequired", "AddressNotVerified", "OrderNumberFailed", "LocatorError",
     "NoStoreAvailable", "NoValidProducts"}
BeforeInsertErrors == BeforeAllocationErrors \cup {"TypeError", "ItemsUnavailable"}

Failed(c) == pc[c] = "failed"
Returned(c) == pc[c] = "returned"

\* C1: a call that failed at the customer_orders insert or later has left no
\* row of its own in any of the four order tables (every row the attempt
\* wrote is removed).
C1_FailedPlacementLeavesNoRows ==
    \A c \in Calls :
        (Failed(c) /\ error[c].kind \notin BeforeInsertErrors) => WroteNothing(c)

\* The call has run the allocation (it returned from the availability query).
PastAllocation(c) ==
    \/ pc[c] \in {"insert_customer_order", "insert_store_order", "resolve_products",
                  "insert_order_items", "insert_history", "returned"}
    \/ Failed(c) /\ error[c].kind \notin BeforeAllocationErrors

\* The cart positions with a product id that no candidate store's active row carries.
UncarriedPositions(c) ==
    {i \in 1..Len(orderData[c].items) :
        /\ Mid(orderData[c].items[i]) # NoId
        /\ ~\E r \in loc[c].productRows.data :
              /\ r.master_product_id = Mid(orderData[c].items[i])
              /\ r.store_id \in Range(loc[c].storeIds)}

NeverAssignable(c) ==
    UncarriedPositions(c) \cup
    {i \in 1..Len(orderData[c].items) : Mid(orderData[c].items[i]) = NoId}

\* C2: when the availability query answered and some cart item's product is
\* carried by no candidate store, the call fails with the items-unavailable
\* error, whose names are exactly those of the items no store can supply,
\* and no customer_orders row of the call exists.
C2_UncarriedItemIsReportedUnavailable ==
    \A c \in Calls :
        (PastAllocation(c) /\ ~loc[c].productRows.error /\ UncarriedPositions(c) # {})
        => /\ Failed(c)
           /\ error[c].kind = "ItemsUnavailable"
           /\ error[c].names = NamesOf(orderData[c].items, SetToSeq(NeverAssignable(c)))
           /\ RowsBy(customer_orders, c) = <<>>

\* C3: a call that failed before the customer_orders insert (any error thrown
\* up to and including the unassigned check) has written no row to
\* customer_orders, store_orders, order_items or order_status_history.
C3_FailureBeforeInsertWritesNothing ==
    \A c \in Calls :
        (Failed(c) /\ error[c].kind \in BeforeInsertErrors) => WroteNothing(c)

C3_Witness ==
    \E c \in Calls : Failed(c) /\ error[c].kind = "ItemsUnavailable"

StoresOfAllocation(c) ==
    {loc[c].storeToItems[j].store_id : j \in 1..Len(loc[c].storeToItems)}

\* C4: a call that returned has written exactly one customer_orders row, one
\* store_orders row per distinct store of the allocation (at least one, no
\* store twice), one order_items row per cart item and one
\* order_status_history row.
C4_SuccessWritesTheWholeOrder ==
    \A c \in Calls :
        Returned(c) =>
            LET so == RowsBy(store_orders, c)
            IN /\ Len(RowsBy(customer_orders, c)) = 1
               /\ Len(so) >= 1
               /\ {so[j].store_id : j \in 1..Len(so)} = StoresOfAllocation(c)
               /\ \A j, k \in 1..Len(so) : so[j].store_id = so[k].store_id => j = k
               /\ Len(RowsBy(order_items, c)) = Len(orderData[c].items)
               /\ Len(RowsBy(order_status_history, c)) = 1

SubOrderSubtotals(c) ==
    LET so == RowsBy(store_orders, c)
    IN SumSeq([j \in 1..Len(so) |-> so[j].subtotal_amount])

\* C5 as stated: after a successful call the sub-orders' subtotal_amount
\* values sum to the subtotal_amount of the customer_orders row.
C5_SubtotalsSumToOrderSubtotal ==
    \A c \in Calls :
        Returned(c) =>
            \A j \in 1..Len(customer_orders) :
                customer_orders[j].by = c
                => SubOrderSubtotals(c) = customer_orders[j].subtotal_amount

\* C5 as amended: after a successful call the sub-orders' subtotal_amount
\* values sum to the sum of price * quantity over the cart, and the
\* customer_orders row holds the subtotal the caller supplied.
C5_SubtotalsSumToCartTotal ==
    \A c \in Calls :
        Returned(c) =>
            /\ SubOrderSubtotals(c) = CartTotal(orderData[c].items)
            /\ \A j \in 1..Len(customer_orders) :
                   customer_orders[j].by = c
                   => customer_orders[j].subtotal_amount = orderData[c].subtotal

C5_Witness ==
    \E c \in Calls :
        /\ Returned(c)
        /\ Len(RowsBy(store_orders, c)) = 2
        /\ orderData[c].subtotal # CartTotal(orderData[c].items)

\* Store s has an active row for the product of cart position i in the
\* availability index.
Carries(st, s, i) ==
    \E m \in DOMAIN st.byMaster :
        /\ m = Mid(st.items[i])
        /\ \E o \in st.byMaster[m] : o.store_id = s

AllCarried(st) ==
    \A i \in 1..Len(st.items) : \E s \in Range(st.storeIds) : Carries(st, s, i)

LoopEnded == al.phase # "loop"

\* C6: when every cart item is carried by some candidate store, the loop
\* ends by its condition with every item assigned.
C6_CarriedCartIsFullyAssigned ==
    (LoopEnded /\ AllCarried(al)) => (al.phase = "exit" /\ Unassigned(al) = {})

C6_Witness ==
    /\ al.phase = "exit"
    /\ AllCarried(al)
    /\ Len(al.storeToItems) >= 2

\* C7: in every state of the loop each cart position is in the list of at
\* most one store, once, and every position in the list of store s is
\* carried by s in the availability index.
C7_OneStorePerItemAndCarried ==
    LET m == al.storeToItems
    IN /\ \A j, k \in 1..Len(m) :
            \A a \in 1..Len(m[j].chunk), b \in 1..Len(m[k].chunk) :
                m[j].chunk[a] = m[k].chunk[b] => (j = k /\ a = b)
       /\ \A j \in 1..Len(m) :
            \A a \in 1..Len(m[j].chunk) : Carries(al, m[j].store_id, m[j].chunk[a])

C7_Witness ==
    /\ Len(al.storeToItems) >= 2
    /\ \E j \in 1..Len(al.storeToItems) : Len(al.storeToItems[j].chunk) >= 2

Covers(st, T) ==
    \A i \in 1..Len(st.items) : \E s \in T : Carries(st, s, i)

\* The least number of candidate stores whose rows cover the whole cart.
MinCover(st) ==
    LET sizes == {Cardinality(T) : T \in {X \in SUBSET Range(st.storeIds) : Covers(st, X)}}
    IN CHOOSE n \in sizes : \A k \in sizes : n <= k

\* C8 as stated: for a cart that can be fulfilled the allocation uses the
\* minimum number of covering stores.
C8_UsesMinimumNumberOfStores ==
    (LoopEnded /\ AllCarried(al)) => Len(al.storeToItems) = MinCover(al)

\* C8 as amended: for a cart that can be fulfilled the number of stores used
\* is at least the minimum, at most the number of cart items and of
\* candidate stores, and is the minimum when one store covers the cart.
C8_GreedyNumberOfStores ==
    (LoopEnded /\ AllCarried(al)) =>
        LET least == MinCover(al)
        IN /\ least <= Len(al.storeToItems)
           /\ Len(al.storeToItems) <= Len(al.items)
           /\ Len(al.storeToItems) <= Len(al.storeIds)
           /\ (least = 1 => Len(al.storeToItems) = 1)

C8_Witness ==
    /\ LoopEnded
    /\ AllCarried(al)
    /\ Len(al.storeToItems) > MinCover(al)

RefCount(st, s, U) == Cardinality({i \in U : Carries(st, s, i)})

\* Greedy maximum coverage as the design states it: while items remain, take
\* the first candidate store with the highest count of remaining items and
\* give it all of them; stop when the highest count is 0.
RECURSIVE RefGreedy(_, _, _)
RefGreedy(st, U, assignments) ==
    LET candidates == st.storeIds
        best == MaxOf({RefCount(st, candidates[k], U) : k \in 1..Len(candidates)})
    IN IF U = {} \/ best = 0
       THEN [assignments |-> assignments, unassigned |-> U]
       ELSE LET k == CHOOSE x \in 1..Len(candidates) :
                        /\ RefCount(st, candidates[x], U) = best
                        /\ \A y \in 1..(x - 1) : RefCount(st, candidates[y], U) < best
                take == {i \in U : Carries(st, candidates[k], i)}
            IN RefGreedy(st, U \ take,
                         Append(assignments, [store_id |-> candidates[k], chunk |-> SetToSeq(take)]))

\* C9: for every input the loop ends with the assignments and the unassigned
\* items of the reference greedy algorithm.
C9_ResultIsReferenceGreedy ==
    LoopEnded =>
        LET ref == RefGreedy(al, 1..Len(al.items), <<>>)
        IN /\ al.phase # "threw"
           /\ al.storeToItems = ref.assignments
           /\ Unassigned(al) = ref.unassigned

HasCode(c) == loc[c].orderCode.seq > 0

CallsWithCodeOf(d) == {c \in Calls : HasCode(c) /\ loc[c].orderCode.prefix = d}

\* C10: at any moment the calls that have received a code for one date prefix
\* hold pairwise distinct sequence numbers that are consecutive from the
\* first number of the date.
C10_CodesDistinctAndConsecutive ==
    \A d \in Days :
        /\ \A c1, c2 \in CallsWithCodeOf(d) :
              loc[c1].orderCode.seq = loc[c2].orderCode.seq => c1 = c2
        /\ {loc[c].orderCode.seq : c \in CallsWithCodeOf(d)}
              = 1..Cardinality(CallsWithCodeOf(d))

C10_Witness ==
    \E d \in Days : CallsWithCodeOf(d) = Calls

SubOrderFees(c) ==
    LET so == RowsBy(store_orders, c)
    IN SumSeq([j \in 1..Len(so) |-> so[j].delivery_fee])

Distance(x, y) == IF x >= y THEN x - y ELSE y - x

\* C11 as stated: after a successful call the delivery_fee values of the
\* store_orders rows sum to the order's delivery fee.
C11_FeesSumToDeliveryFee ==
    \A c \in Calls : Returned(c) => SubOrderFees(c) = orderData[c].delivery_fee

\* C11 as amended: after a successful call with N sub-orders every
\* store_orders row holds the representable number nearest to fee / N (the
\* fee itself when N = 1), the rows' sum is within N half-units of the last
\* place of the fee, and is the fee when N = 1 or fee / N is representable.
C11_FeesSumWithinRounding ==
    \A c \in Calls :
        Returned(c) =>
            LET so == RowsBy(store_orders, c)
                n == Len(so)
                fee == orderData[c].delivery_fee
            IN /\ \A j \in 1..n : 2 * Distance(n * so[j].delivery_fee, fee) <= n
               /\ 2 * Distance(SubOrderFees(c), fee) <= n
               /\ (n = 1 \/ fee % n = 0) => SubOrderFees(c) = fee

C11_Witness ==
    \E c \in Calls :
        /\ Returned(c)
        /\ Len(RowsBy(store_orders, c)) = MaxSubOrders
        /\ SubOrderFees(c) # orderData[c].delivery_fee

\* The rows of call c without its status-history row: one customer_orders
\* row, a store_orders row per allocated store that refers to it, and an
\* order_items row per cart item that refers to one of those.
OwnOrderRows(c) ==
    LET co == RowsBy(customer_orders, c)
        so == RowsBy(store_orders, c)
        oi == RowsBy(order_items, c)
    IN /\ Len(co) = 1
       /\ Len(so) = Len(loc[c].storeToItems)
       /\ Len(so) >= 1
       /\ \A j \in 1..Len(so) : so[j].customer_order_id = co[1].id
       /\ Len(oi) = Len(orderData[c].items)
       /\ \A j \in 1..Len(oi) : \E k \in 1..Len(so) : oi[j].store_order_id = so[k].id

OwnHistoryRow(c) ==
    LET co == RowsBy(customer_orders, c)
        h == RowsBy(order_status_history, c)
    IN Len(h) = 1 /\ h[1].customer_order_id = co[1].id

UniqueIds(table) ==
    \A j, k \in 1..Len(table) : table[j].id = table[k].id => j = k

\* C12: two returned calls with identical input have two customer_orders
\* rows with distinct ids and distinct order codes, each with its own
\* store_orders, order_items and order_status_history rows, and no row of one
\* is a row of the other.
C12_IdenticalCallsMakeTwoOrders ==
    \A c1, c2 \in Calls :
        (c1 # c2 /\ Returned(c1) /\ Returned(c2) /\ orderData[c1] = orderData[c2])
        => /\ OwnOrderRows(c1) /\ OwnOrderRows(c2)
           /\ OwnHistoryRow(c1) /\ OwnHistoryRow(c2)
           /\ UniqueIds(customer_orders) /\ UniqueIds(store_orders) /\ UniqueIds(order_items)
           /\ RowsBy(customer_orders, c1)[1].order_code
                 # RowsBy(customer_orders, c2)[1].order_code

IsPrefix(a, b) == Len(a) <= Len(b) /\ \A j \in 1..Len(a) : a[j] = b[j]

\* A step of some createOrder call (each moves its call on).
SomeCallSteps == \E c \in Calls : pc'[c] # pc[c]

\* C13: no step of createOrder, on a successful or a failing path, changes a
\* row of the products table (is_active or quantity) or the stores the
\* locator finds; besides the order-number counter it only appends rows to
\* the four order tables.
C13_CreateOrderNeverWritesInventory ==
    [][SomeCallSteps =>
          /\ products' = products
          /\ nearby' = nearby
          /\ IsPrefix(customer_orders, customer_orders')
          /\ IsPrefix(store_orders, store_orders')
          /\ IsPrefix(order_items, order_items')
          /\ IsPrefix(order_status_history, order_status_history')]_vars

C13_Witness ==
    \E c \in Calls :
        /\ Returned(c)
        /\ \E j \in 1..Len(order_items) :
              /\ order_items[j].by = c
              /\ order_items[j].quantity > products[order_items[j].product_id].quantity

\* The spatial query of call c answered an error, threw, or found no store.
LocatorFoundNothing(c) ==
    \/ loc[c].rpc \in {"error", "threw"}
    \/ loc[c].rpc = "data" /\ nearby[c] = <<>>

\* C14: getNearbyStoreIds never raises; when the spatial query answers an
\* error, throws or finds no store, the call fails with the
\* no-store-available error and has written no row.
C14_LocatorNeverRaises ==
    \A c \in Calls :
        /\ error[c].kind # "LocatorError"
        /\ LocatorFoundNothing(c)
           => (Failed(c) /\ error[c].kind = "NoStoreAvailable" /\ WroteNothing(c))

C14_Witness ==
    \E c \in Calls : loc[c].rpc = "threw" /\ Failed(c)

\* Call c was made with an empty cart, or without a customer id.
MalformedRequest(c) ==
    \/ pc[c] # "idle" /\ orderData[c].items = <<>>
    \/ error[c].kind = "UserIdRequired"

\* C15: a call with an empty cart or without a customer id is rejected by
\* the first step: past its start it has failed with a validation error, has
\* written no row, is not geocoding and has not obtained an order number.
C15_MalformedRequestRejectedAtOnce ==
    \A c \in Calls :
        (MalformedRequest(c) /\ pc[c] # "start")
        => /\ Failed(c)
           /\ error[c].kind \in {"UserIdRequired", "NoValidProducts"}
           /\ WroteNothing(c)
           /\ loc[c].orderCode.seq = 0
           /\ \A d \in Days : order_seq[d] = 0

\* The cart positions of call c whose inventory entry, the one the
\* allocation used, has been switched off since the availability query.
DeactivatedSinceQuery(c) ==
    {i \in 1..Len(orderData[c].items) :
        \E j \in 1..Len(loc[c].storeToItems) :
            LET s == loc[c].storeToItems[j].store_id
                p == Mid(orderData[c].items[i])
            IN /\ i \in Range(loc[c].storeToItems[j].chunk)
               /\ ProductRow(s, p) \in loc[c].productRows.data
               /\ ~products[<<s, p>>].is_active}

\* C16: when an inventory entry the allocation used was switched off after
\* the availability query, the call (once its re-resolution query has
\* answered) has failed with the product-not-available error naming such a
\* product, and no customer_orders or store_orders row of the call remains.
C16_DeactivationFailsAndRollsBack ==
    \A c \in Calls :
        (/\ DeactivatedSinceQuery(c) # {}
         /\ pc[c] # "resolve_products"
         /\ error[c].kind # "VerifyAvailability")
        => /\ Failed(c)
           /\ error[c].kind = "ProductNotAvailable"
           /\ \E i \in DeactivatedSinceQuery(c) :
                 error[c].names = <<orderData[c].items[i].name>>
           /\ RowsBy(customer_orders, c) = <<>>
           /\ RowsBy(store_orders, c) = <<>>

\* C17: a call whose availability query or whose order_status_history
\* insert answered a datastore error has failed (it has not returned an order).
C17_QueryAndHistoryErrorsAreReported ==
    \A c \in Calls :
        (loc[c].productRows.error \/ loc[c].historyError) => Failed(c)

\* Every cart position of call c is in the chunk of exactly one store.
AllocationComplete(c) ==
    /\ ~loc[c].productRows.error
    /\ \A i \in 1..Len(orderData[c].items) :
          Cardinality({j \in 1..Len(loc[c].storeToItems) :
                          i \in Range(loc[c].storeToItems[j].chunk)}) = 1

ItemsOfFirstChunks(c, k) ==
    SumSeq([j \in 1..k |-> Len(loc[c].storeToItems[j].chunk)])

\* What the rows and locals of call c say about the steps it has taken.
RowsInOrder(c) ==
    LET co == RowsBy(customer_orders, c)
        so == RowsBy(store_orders, c)
        oi == RowsBy(order_items, c)
        h == RowsBy(order_status_history, c)
        k == Len(so)
    IN /\ loc[c].rpc # "none" => HasCode(c)
       /\ loc[c].storeIds # <<>> => loc[c].rpc = "data"
       /\ loc[c].productRows.data # {} => loc[c].storeIds # <<>>
       /\ loc[c].storeToItems # <<>> => loc[c].storeIds # <<>>
       /\ Len(co) <= 1
       /\ co # <<>> => AllocationComplete(c)
       /\ k > 0 => co # <<>>
       /\ k <= Len(loc[c].storeToItems)
       /\ \A j \in 1..k : so[j].store_id = loc[c].storeToItems[j].store_id
       /\ k = 0 => oi = <<>>
       /\ k > 0 => Len(oi) \in {ItemsOfFirstChunks(c, k - 1), ItemsOfFirstChunks(c, k)}
       /\ h # <<>> => /\ k = Len(loc[c].storeToItems)
                      /\ Len(oi) = Len(orderData[c].items)

\* The allocation loop of call c has run: it assigned items, or raised one
\* of the two errors only the allocation raises.
AllocationRan(c) ==
    \/ loc[c].storeToItems # <<>>
    \/ error[c].kind \in {"TypeError", "ItemsUnavailable"}

\* C18: the steps of one call are taken in the order coordinates, order
\* code, locator, availability query, allocation, customer_orders insert,
\* then per store the store_orders insert followed by that store's
\* order_items, then the status-history insert, each only when the one
\* before succeeded: the allocation runs only on an availability query that
\* answered, no row exists before the allocation has assigned every item,
\* and the history row exists only after all sub-orders and items.
C18_StepsInOrder ==
    \A c \in Calls :
        /\ RowsInOrder(c)
        /\ loc[c].productRows.error => ~AllocationRan(c)

KeepsStatus(table, table2) ==
    \A j \in 1..Len(table) : j <= Len(table2) /\ table2[j].status = table[j].status

\* C19: every customer_orders row, every store_orders row and every
\* order_status_history row createOrder inserted has status
\* pending_at_store, and no step of createOrder changes the status of a row
\* that exists.
C19_OnlyPendingAtStore ==
    /\ [](/\ \A j \in 1..Len(customer_orders) : customer_orders[j].status = "pending_at_store"
          /\ \A j \in 1..Len(store_orders) : store_orders[j].status = "pending_at_store"
          /\ \A j \in 1..Len(order_status_history) :
                order_status_history[j].status = "pending_at_store")
    /\ [][SomeCallSteps =>
             /\ KeepsStatus(customer_orders, customer_orders')
             /\ KeepsStatus(store_orders, store_orders')
             /\ KeepsStatus(order_status_history, order_status_history')]_vars

C19_Witness ==
    \E c \in Calls :
        /\ Returned(c)
        /\ Len(RowsBy(store_orders, c)) = 2
        /\ RowsBy(order_status_history, c) # <<>>

\* The order_items rows of one store_orders row, in insertion order.
ItemsOfStoreOrder(id) == SelectSeq(order_items, LAMBDA r : r.store_order_id = id)

\* C20: the order_items rows of every store_orders row are, item by item, the
\* items of that store's chunk, and each holds as product_id the id of the
\* products row of that same store for the item's master product (never the
\* master product id itself).
C20_LineItemsReferenceStoreRows ==
    \A c \in Calls :
        LET so == RowsBy(store_orders, c)
        IN \A k \in 1..Len(so) :
              LET rows == ItemsOfStoreOrder(so[k].id)
                  chunk == ItemsOfChunk(orderData[c].items, loc[c].storeToItems[k].chunk)
              IN /\ rows # <<>> => Len(rows) = Len(chunk)
                 /\ \A j \in 1..Len(rows) :
                       /\ rows[j].product_id = ProductRow(so[k].store_id, Mid(chunk[j])).id
                       /\ rows[j].product_id \in DOMAIN products
                       /\ rows[j].product_name = chunk[j].name

C20_Witness ==
    \E c \in Calls :
        /\ Returned(c)
        /\ \E j, k \in 1..Len(order_items) :
              /\ order_items[j].by = c /\ order_items[k].by = c
              /\ order_items[j].product_id[1] # order_items[k].product_id[1]

\* The allocation call c computes when it runs alone on what its own
\* queries answered.
AllocationAlone(c) ==
    RunLoop(AllocStart(orderData[c].items, loc[c].storeIds,
                       ByMaster(loc[c].productRows.data))).storeToItems

\* A call that has just allocated holds the allocation of the call run alone.
AllocatesAsAlone ==
    \A c \in Calls :
        pc[c] = "insert_customer_order" => loc[c].storeToItems = AllocationAlone(c)

\* The allocation a call holds is not changed by any later step.
KeepsAllocation ==
    \A c \in Calls :
        loc[c].storeToItems # <<>> => loc'[c].storeToItems = loc[c].storeToItems

\* The rows of call c are rows of the order it writes when run alone: its
\* customer_orders row holds its own amounts, its k-th store_orders row is
\* that of the k-th store of its allocation, and the order_items of that row
\* are the items of that store's chunk.
RowsAsAlone(c) ==
    LET co == RowsBy(customer_orders, c)
        so == RowsBy(store_orders, c)
        alone == loc[c].storeToItems
    IN /\ \A j \in 1..Len(co) :
            /\ co[j].subtotal_amount = orderData[c].subtotal
            /\ co[j].delivery_fee = orderData[c].delivery_fee
       /\ Len(so) <= Len(alone)
       /\ \A k \in 1..Len(so) :
            LET chunk == ItemsOfChunk(orderData[c].items, alone[k].chunk)
                rows == ItemsOfStoreOrder(so[k].id)
            IN /\ so[k].store_id = alone[k].store_id
               /\ so[k].subtotal_amount = ChunkSubtotal(chunk)
               /\ so[k].delivery_fee = ChunkDeliveryFee(orderData[c].delivery_fee, Len(alone))
               /\ rows # <<>> => Len(rows) = Len(chunk)
               /\ \A j \in 1..Len(rows) :
                     /\ rows[j].product_id = ProductRow(so[k].store_id, Mid(chunk[j])).id
                     /\ rows[j].unit_price = chunk[j].price
                     /\ rows[j].quantity = chunk[j].quantity
       /\ Returned(c) => /\ Len(so) = Len(alone)
                         /\ Len(RowsBy(order_items, c)) = Len(orderData[c].items)

\* Every store_orders row refers to the customer_orders row of its own call,
\* every order_items row to a store_orders row of its own call.
RowsReferToOwnCall ==
    /\ \A j \in 1..Len(store_orders) :
          \E k \in 1..Len(customer_orders) :
              /\ customer_orders[k].id = store_orders[j].customer_order_id
              /\ customer_orders[k].by = store_orders[j].by
    /\ \A j \in 1..Len(order_items) :
          \E k \in 1..Len(store_orders) :
              /\ store_orders[k].id = order_items[j].store_order_id
              /\ store_orders[k].by = order_items[j].by

\* C21: for two calls interleaved at their datastore round-trips, every
\* store_orders row refers to the customer_orders row of the same call, every
\* order_items row to a store_orders row of the same call, and apart from the
\* order code the rows of each call are those of the call run alone.
C21_InterleavedCallsAreIndependent ==
    /\ [](RowsReferToOwnCall /\ AllocatesAsAlone /\ \A c \in Calls : RowsAsAlone(c))
    /\ [][KeepsAllocation]_vars

C21_Witness ==
    /\ Returned(1) /\ Returned(2)
    /\ customer_orders[1].by = 1
    /\ store_orders[1].by = 2
    /\ Len(store_orders) = 4

\* What the allocation of call c raised, if it raised.
AllocationError(c) ==
    IF error[c].kind \in {"TypeError", "ItemsUnavailable"} THEN error[c] ELSE NoError

SameAllocationInput(c1, c2) ==
    /\ orderData[c1].items = orderData[c2].items
    /\ loc[c1].storeIds = loc[c2].storeIds
    /\ loc[c1].productRows = loc[c2].productRows

BestCountIsZero(st) == \A k \in 1..Len(st.storeIds) : CountFor(st, st.storeIds[k]) = 0

\* A loop that has stopped stopped by its condition or by the best count 0.
StoppedByConditionOrZeroCount ==
    LoopEnded => \/ al.phase = "exit" /\ ~LoopCond(al)
                 \/ al.phase = "break" /\ BestCountIsZero(al)

\* C23: the loop runs at most as many passes as the cart has items, and a
\* pass that does not assign an item stops the loop because the best count
\* is 0.
C23_RoundsAssignOrStopAtZero ==
    /\ al.rounds <= Len(al.items)
    /\ StoppedByConditionOrZeroCount

\* The queries the availability lookup of call c sent.
QueriesOf(c) ==
    IF PastAllocation(c)
    THEN AvailabilityQueries(loc[c].storeIds, MasterProductIds(orderData[c].items))
    ELSE <<>>

\* The pages of a lookup that cuts both id lists with `chunk`.
PagedQueries(storeIds, masterProductIds) ==
    LET storeChunks == Chunk(storeIds, IN_FILTER_CHUNK_SIZE)
        productChunks == Chunk(SetToSeq(masterProductIds), IN_FILTER_CHUNK_SIZE)
    IN [k \in 1..(Len(storeChunks) * Len(productChunks)) |->
           [store_id |-> storeChunks[((k - 1) \div Len(productChunks)) + 1],
            master_product_id |-> Range(productChunks[((k - 1) % Len(productChunks)) + 1])]]

\* C24: no query of the availability lookup of an order placement carries
\* more store ids or more product ids than the chunk limit.
C24_LookupQueriesArePaged ==
    \A c \in Calls : \A k \in 1..Len(QueriesOf(c)) :
        /\ Len(QueriesOf(c)[k].store_id) <= IN_FILTER_CHUNK_SIZE
        /\ Cardinality(QueriesOf(c)[k].master_product_id) <= IN_FILTER_CHUNK_SIZE

\* The errors raised before the order code is asked for, and by asking.
BeforeCodeErrors == {"UserIdRequired", "AddressNotVerified", "OrderNumberFailed"}

\* Call c is past line 764: it runs a later step, has returned, or failed later.
PastGenerate(c) ==
    \/ pc[c] \notin {"idle", "start", "geocode", "generate", "failed"}
    \/ Failed(c) /\ error[c].kind \notin BeforeCodeErrors

FailedAfterCode(c) == Failed(c) /\ error[c].kind \notin BeforeCodeErrors

PersistedSeqsOf(d) ==
    {customer_orders[j].order_code.seq :
        j \in {k \in 1..Len(customer_orders) : customer_orders[k].order_code.prefix = d}}

\* C25: every call past line 764, also one that failed at a later step,
\* holds a code whose number the date's sequence has counted: the sequence of
\* a date stands at the number of codes handed out for it, whether or not
\* their orders were persisted.  The customer_orders rows have pairwise
\* distinct codes.
C25_CodeIsTakenBeforeLaterSteps ==
    /\ \A c \in Calls : PastGenerate(c) <=> HasCode(c)
    /\ \A d \in Days : order_seq[d] = Cardinality(CallsWithCodeOf(d))
    /\ \A c \in Calls : HasCode(c) => loc[c].orderCode.seq <= order_seq[loc[c].orderCode.prefix]
    /\ \A j, k \in 1..Len(customer_orders) :
          customer_orders[j].order_code = customer_orders[k].order_code => j = k

\* A placement that failed at the locator took number 1 of a date, and the
\* date's only persisted code is number 2, of a placement that returned.
C25_Witness ==
    \E d \in Days, c \in Calls :
        /\ FailedAfterCode(c) /\ error[c].kind = "NoStoreAvailable"
        /\ loc[c].orderCode = [prefix |-> d, seq |-> 1]
        /\ PersistedSeqsOf(d) = {2}
        /\ \E c2 \in Calls : Returned(c2) /\ loc[c2].orderCode = [prefix |-> d, seq |-> 2]

\* The active entries of the candidate stores of call c for the cart's
\* products, whatever their quantity.
ActiveEntryRows(c) ==
    {ProductRow(x[1], x[2]) :
        x \in {y \in DOMAIN products : /\ products[y].is_active
                                       /\ y[1] \in Range(loc[c].storeIds)
                                       /\ y[2] \in MasterProductIds(orderData[c].items)}}

\* C26: the rows an answered availability query gave the allocation are the
\* active entries of the candidate stores for the cart's products,
\* whatever quantity the entries hold and the cart asks for; the quantity
\* of an entry is as its owner last set it, whatever was ordered.
C26_CarriedIsActiveWhateverTheQuantity ==
    /\ \A c \in Calls :
          (PastAllocation(c) /\ ~loc[c].productRows.error)
          => loc[c].productRows.data = ActiveEntryRows(c)
    /\ \A x \in DOMAIN products :
          products[x].quantity = IF res.status = 200 /\ res.req.id = x
                                 THEN res.req.body.value
                                 ELSE products[x].quantity

\* Both calls have returned an order for an entry that held quantity 0 from
\* the start and was never updated.
C26_Witness ==
    /\ Returned(1) /\ Returned(2)
    /\ res = NoResponse
    /\ \E x \in DOMAIN products : products[x].is_active /\ products[x].quantity = 0
    /\ Len(order_items) = 2

StoresWithSubOrder(c) ==
    {store_orders[j].store_id : j \in {k \in 1..Len(store_orders) : store_orders[k].by = c}}

\* C27: every store_orders row names a store of the candidate list the
\* locator returned to the row's call, and a call that returned has written
\* a sub-order for every store of its allocation, whether the store is
\* online or not by then.
C27_SubOrdersGoToLocatedStores ==
    \A c \in Calls :
        /\ StoresWithSubOrder(c) \subseteq Range(loc[c].storeIds)
        /\ Range(loc[c].storeIds) \subseteq Range(nearby[c])
        /\ Returned(c) => StoresWithSubOrder(c) = StoresOfAllocation(c)

\* The call located both stores, store 2 was switched off before its
\* sub-order was written, and the call returned with a sub-order for it.
C27_Witness ==
    /\ Returned(1)
    /\ StoresWithSubOrder(1) = {1, 2}
    /\ ~stores[2].is_active
    /\ stores[1].is_active

MinOf(x, y) == IF x <= y THEN x ELSE y

OrderItemsOf(storeOrderId) ==
    {j \in 1..Len(order_items) : order_items[j].store_order_id = storeOrderId}

\* C28: every store of an allocation result has at least one item, the
\* result has at most as many stores as the cart has items and as the
\* locator returned candidates, and after a call returned each of its
\* store_orders rows owns at least one order_items row.
C28_EverySubOrderHasItems ==
    \A c \in Calls :
        /\ \A j \in 1..Len(loc[c].storeToItems) : Len(loc[c].storeToItems[j].chunk) >= 1
        /\ Len(loc[c].storeToItems)
              <= MinOf(Len(orderData[c].items), Len(loc[c].storeIds))
        /\ Returned(c) =>
              /\ \A j \in 1..Len(store_orders) :
                    store_orders[j].by = c => OrderItemsOf(store_orders[j].id) # {}
              /\ Len(RowsBy(store_orders, c))
                    <= MinOf(Len(orderData[c].items), Len(loc[c].storeIds))

\* A returned call with two sub-orders, for a cart of two items and two
\* candidate stores.
C28_Witness ==
    \E c \in Calls :
        /\ Returned(c)
        /\ Len(RowsBy(store_orders, c)) = 2
        /\ Len(orderData[c].items) = 2
        /\ Len(loc[c].storeIds) = 2

StoresOwnedBy(k) == {j \in 1..Len(stores) : stores[j].owner_id = k}

SignupFailed(k) == signup[k].pc = "done" /\ signup[k].status # 200
SignupSucceeded(k) == signup[k].pc = "done" /\ signup[k].status = 200

\* C29: after a signupComplete call that answered a failure neither its
\* app_users row nor a stores row of it remains, and after a call that
\* answered success its app_users row and exactly one stores row owned by
\* that user exist.
C29_FailedSignupLeavesNoRow ==
    \A k \in Signups :
        /\ SignupFailed(k) => k \notin app_users /\ StoresOwnedBy(k) = {}
        /\ SignupSucceeded(k) => k \in app_users /\ Cardinality(StoresOwnedBy(k)) = 1

ConsistentEntry(row) == row.quantity >= 0 /\ row.in_stock = (row.quantity > 0)

\* What the last updateProductQuantity request was answered, by its case.
AnsweredByCase ==
    res.handler = "updateProductQuantity" =>
        /\ ~res.req.auth => res.status = 401
        /\ (res.req.auth /\ (res.req.body.type # "number" \/ res.req.body.value < 0))
              => res.status = 400
        /\ (res.req.auth /\ res.req.body.type = "number" /\ res.req.body.value >= 0
              /\ res.req.id \notin DOMAIN products)
              => res.status \in {404, 500}
        /\ res.status = 404 => res.req.id \notin DOMAIN products
        /\ res.status = 200 =>
              /\ res.req.id \in DOMAIN products
              /\ products[res.req.id].quantity = res.req.body.value

\* C30: every inventory entry has quantity >= 0 and in_stock = (quantity > 0)
\* after any sequence of updateProductQuantity requests; a request without
\* Bearer header is answered 401, one with a quantity that is no number or
\* is negative 400, one for an unknown product id 404 (500 if the update
\* itself failed), and a request answered otherwise than 200 changes no entry.
C30_QuantityUpdatesKeepEntriesConsistent ==
    /\ [](\A x \in DOMAIN products : ConsistentEntry(products[x]))
    /\ []AnsweredByCase
    /\ [][res'.status # 200 => products' = products]_vars
    /\ [][\A x \in DOMAIN products : x # res'.req.id => products'[x] = products[x]]_vars

\* An entry was set to 0 and is out of stock, the other was set to the
\* highest quantity, and the last request, for an unknown id, was answered 404.
C30_Witness ==
    /\ res.handler = "updateProductQuantity" /\ res.status = 404
    /\ \E x, y \in DOMAIN products :
          /\ products[x].quantity = 0 /\ ~products[x].in_stock
          /\ products[y].quantity = MaxQuantity /\ products[y].in_stock

====
